---- MODULE Spec2Model ----
(***************************************************************************)
(* Model of exporter/gpus.go: the GPU fetchers (structured JSON and CLI    *)
(* fallback), their mutex-guarded TTL cache, and the GRES/TRES parser.     *)
(*                                                                         *)
(* Text is modelled as a sequence of one-character strings, so that the    *)
(* string operations of the source (Split, Index, TrimSpace, ...) are      *)
(* computed rather than assumed.  Quantities are float64 in the source;    *)
(* every quantity the modelled inputs produce is a small integer, which    *)
(* float64 represents exactly, and a quotient is kept as a reduced         *)
(* fraction (two float64 quotients of small integers are equal exactly     *)
(* when the fractions are).                                                *)
(***************************************************************************)
EXTENDS Integers, Sequences, FiniteSets, TLC

\* ------------------------------------------------------------------ bounds

\* Number of goroutines that call FetchMetrics on the one fetcher.
NumCallers == 2
\* Total number of FetchMetrics calls made in one behaviour.
MaxCalls == 3
\* Last instant of the clock (seconds).
MaxTime == 1
\* The configured cache limit (Config.PollLimit, seconds).
MaxLimit == 1

\* ------------------------------------------------------------------ text

Digits == <<"0", "1", "2", "3", "4", "5", "6", "7", "8", "9">>

UpperCase == <<"A", "B", "C", "D", "E", "F", "G", "H", "I", "J", "K", "L", "M",
               "N", "O", "P", "Q", "R", "S", "T", "U", "V", "W", "X", "Y", "Z">>

LowerCase == <<"a", "b", "c", "d", "e", "f", "g", "h", "i", "j", "k", "l", "m",
               "n", "o", "p", "q", "r", "s", "t", "u", "v", "w", "x", "y", "z">>

\* unicode.IsSpace, on the characters the modelled outputs contain.
IsSpace(ch) == ch \in {" ", "\n", "\t", "\r"}

\* strings.Index(s, ch) for a one-character separator: 0-based, -1 if absent.
Index(s, ch) ==
    IF \E i \in 1..Len(s) : s[i] = ch
    THEN (CHOOSE i \in 1..Len(s) : s[i] = ch /\ \A j \in 1..(i - 1) : s[j] # ch) - 1
    ELSE -1

\* strings.Contains(s, sub).
Contains(s, sub) ==
    \E i \in 0..(Len(s) - Len(sub)) : SubSeq(s, i + 1, i + Len(sub)) = sub

\* strings.HasPrefix(s, prefix).
HasPrefix(s, prefix) ==
    Len(s) >= Len(prefix) /\ SubSeq(s, 1, Len(prefix)) = prefix

\* strings.Split(s, ch) for a one-character separator: never empty.
RECURSIVE Split(_, _)
Split(s, ch) ==
    LET i == Index(s, ch)
    IN  IF i = -1 THEN <<s>>
        ELSE <<SubSeq(s, 1, i)>> \o Split(SubSeq(s, i + 2, Len(s)), ch)

RECURSIVE TrimLeftSpace(_)
TrimLeftSpace(s) ==
    IF s # <<>> /\ IsSpace(s[1]) THEN TrimLeftSpace(Tail(s)) ELSE s

RECURSIVE TrimRightSpace(_)
TrimRightSpace(s) ==
    IF s # <<>> /\ IsSpace(s[Len(s)])
    THEN TrimRightSpace(SubSeq(s, 1, Len(s) - 1)) ELSE s

\* strings.TrimSpace / bytes.TrimSpace.
TrimSpace(s) == TrimRightSpace(TrimLeftSpace(s))

RECURSIVE TrimLeftChar(_, _)
TrimLeftChar(s, ch) ==
    IF s # <<>> /\ s[1] = ch THEN TrimLeftChar(Tail(s), ch) ELSE s

RECURSIVE TrimRightChar(_, _)
TrimRightChar(s, ch) ==
    IF s # <<>> /\ s[Len(s)] = ch
    THEN TrimRightChar(SubSeq(s, 1, Len(s) - 1), ch) ELSE s

\* strings.Trim(s, cutset) for a one-character cutset.
Trim(s, ch) == TrimRightChar(TrimLeftChar(s, ch), ch)

LowerChar(ch) ==
    IF \E i \in 1..26 : UpperCase[i] = ch
    THEN LowerCase[CHOOSE i \in 1..26 : UpperCase[i] = ch]
    ELSE ch

\* strings.ToLower.
ToLower(s) == [i \in 1..Len(s) |-> LowerChar(s[i])]

IsDigit(ch) == \E i \in 1..10 : Digits[i] = ch

DigitVal(ch) == (CHOOSE i \in 1..10 : Digits[i] = ch) - 1

RECURSIVE DecimalVal(_)
DecimalVal(s) ==
    IF s = <<>> THEN 0
    ELSE 10 * DecimalVal(SubSeq(s, 1, Len(s) - 1)) + DigitVal(s[Len(s)])

\* strconv.ParseFloat(s, 64) on the literals the modelled outputs contain: an
\* optional sign and decimal digits.  Any other text is reported as a syntax
\* error (ok = FALSE); the modelled outputs hold no literal with a fraction,
\* an exponent, a hexadecimal prefix or the words inf/nan, which ParseFloat
\* would also accept.
ParseFloat(s) ==
    LET signed == s # <<>> /\ s[1] \in {"+", "-"}
        body   == IF signed THEN Tail(s) ELSE s
    IN  IF body # <<>> /\ \A i \in 1..Len(body) : IsDigit(body[i])
        THEN [ok |-> TRUE,
              val |-> IF signed /\ s[1] = "-" THEN 0 - DecimalVal(body)
                      ELSE DecimalVal(body)]
        ELSE [ok |-> FALSE, val |-> 0]

\* ------------------------------------------------------------------ parser

StrNA == <<"N", "/", "A">>

StrNull == <<"(", "n", "u", "l", "l", ")">>

StrGpu == <<"g", "p", "u">>

StrGresGpu == <<"g", "r", "e", "s", "/", "g", "p", "u">>

\* The TRES loop of parseGresGpuCount: the value of the first gres/gpu key
\* whose value parses, 0 when there is none.
RECURSIVE parseTres(_, _)
parseTres(parts, i) ==
    IF i > Len(parts) THEN 0
    ELSE LET part     == TrimSpace(parts[i])
             eqIdx    == Index(part, "=")
             countStr == SubSeq(part, eqIdx + 2, Len(part))
         IN  IF /\ HasPrefix(part, StrGresGpu)
                /\ eqIdx # -1
                /\ eqIdx < Len(part) - 1
                /\ ParseFloat(countStr).ok
             THEN ParseFloat(countStr).val
             ELSE parseTres(parts, i + 1)

\* Mutant of parseGresToken: a count that does not parse is reported as -1
\* instead of 0.
parseGresTokenSentinel(gres0) ==
    LET idx   == Index(gres0, "(")
        gres  == IF idx # -1 THEN SubSeq(gres0, 1, idx) ELSE gres0
        parts == Split(gres, ":")
        count == ParseFloat(parts[Len(parts)])
    IN  IF ~Contains(ToLower(gres), StrGpu) THEN 0
        ELSE IF Len(parts) < 2 THEN 0
        ELSE IF ~count.ok THEN -1
        ELSE count.val

\* Mutant of parseGresToken: the gpu test is made on the string as written,
\* without strings.ToLower.
parseGresTokenCaseSensitive(gres0) ==
    LET idx   == Index(gres0, "(")
        gres  == IF idx # -1 THEN SubSeq(gres0, 1, idx) ELSE gres0
        parts == Split(gres, ":")
        count == ParseFloat(parts[Len(parts)])
    IN  IF ~Contains(gres, StrGpu) THEN 0
        ELSE IF Len(parts) < 2 THEN 0
        ELSE IF ~count.ok THEN 0
        ELSE count.val

\* The single-token tail of parseGresGpuCount (no "=" and no ",").
parseGresToken(gres0) ==
    LET idx   == Index(gres0, "(")
        gres  == IF idx # -1 THEN SubSeq(gres0, 1, idx) ELSE gres0
        parts == Split(gres, ":")
        count == ParseFloat(parts[Len(parts)])
    IN  IF ~Contains(ToLower(gres), StrGpu) THEN 0
        ELSE IF Len(parts) < 2 THEN 0
        ELSE IF ~count.ok THEN 0
        ELSE count.val

RECURSIVE parseGresSum(_, _)
RECURSIVE parseGresGpuCount(_)

\* The legacy multi-resource loop: the sum over the comma-separated parts.
parseGresSum(parts, i) ==
    IF i > Len(parts) THEN 0
    ELSE parseGresGpuCount(TrimSpace(parts[i])) + parseGresSum(parts, i + 1)

parseGresGpuCount(gres) ==
    IF gres = <<>> \/ gres = StrNA \/ gres = StrNull THEN 0
    ELSE IF Contains(gres, <<"=">>) THEN parseTres(Split(gres, ","), 1)
    ELSE IF Contains(gres, <<",">>) THEN parseGresSum(Split(gres, ","), 1)
    ELSE parseGresToken(gres)

\* ------------------------------------------------------------------ values

\* A nil pointer, and a pointer to a value.
Nil == <<>>

Ptr(v) == <<v>>

\* A nil error; every error of the model is a non-empty message.
NoErr == ""

ErrTransport == "exec: exit status 1"

ErrDecode == "invalid character looking for beginning of value"

ErrFieldCount == "record on line 2: wrong number of fields"

RECURSIVE Gcd(_, _)
Gcd(a, b) == IF b = 0 THEN a ELSE Gcd(b, a % b)

Abs(a) == IF a < 0 THEN 0 - a ELSE a

\* The float64 quotient a / b for b > 0, kept as the reduced fraction.
FloatDiv(a, b) ==
    LET g == Gcd(Abs(a), b)
    IN  [num |-> a \div g, den |-> b \div g]

\* The float64 constant 0.0.
FloatZero == [num |-> 0, den |-> 1]

\* ------------------------------------------------------------------ scrapers

\* What SlurmByteScraper.FetchRawBytes returns: an error, or bytes.  The bytes
\* of the structured variant are kept decoded-or-not (json), with the Errors
\* and the record list (nodes / jobs, each record its resource string) of the
\* document; the bytes of the fallback variant are kept as text.
RawErr ==
    [err |-> TRUE, json |-> FALSE, errors |-> <<>>, records |-> <<>>, text |-> <<>>]

RawJson(errors, records) ==
    [err |-> FALSE, json |-> TRUE, errors |-> errors, records |-> records, text |-> <<>>]

RawText(text) ==
    [err |-> FALSE, json |-> FALSE, errors |-> <<>>, records |-> <<>>, text |-> text]

\* json.Unmarshal into sinfoGpuResponse / sacctGpuResponse.
Unmarshal(raw) ==
    [err |-> IF raw.json THEN NoErr ELSE ErrDecode,
     Errors |-> raw.errors,
     Records |-> raw.records]

\* The result of fetchTotalGpus / fetchAllocatedGpus: (float64, error), and
\* what the call added to the error counter.
FetchOk(v) == [val |-> v, err |-> NoErr, add |-> 0]

FetchErr(e, n) == [val |-> 0, err |-> e, add |-> n]

\* The loop "for _, r := range records { total += parseGresGpuCount(r) }".
RECURSIVE SumGres(_, _)
SumGres(records, i) ==
    IF i > Len(records) THEN 0
    ELSE parseGresGpuCount(records[i]) + SumGres(records, i + 1)

JsonFetchTotalGpus(raw) ==
    LET sinfoResp == Unmarshal(raw)
    IN  IF raw.err THEN FetchErr(ErrTransport, 0)
        ELSE IF sinfoResp.err # NoErr THEN FetchErr(sinfoResp.err, 0)
        ELSE IF Len(sinfoResp.Errors) > 0
             THEN FetchErr(sinfoResp.Errors[1], Len(sinfoResp.Errors))
        ELSE FetchOk(SumGres(sinfoResp.Records, 1))

\* Mutant of JsonFetchAllocatedGpus: an upstream error list counts as one
\* error and the last entry is returned.
JsonFetchAllocatedGpusOneError(raw) ==
    LET sacctResp == Unmarshal(raw)
    IN  IF raw.err THEN FetchErr(ErrTransport, 0)
        ELSE IF sacctResp.err # NoErr THEN FetchErr(sacctResp.err, 0)
        ELSE IF Len(sacctResp.Errors) > 0
             THEN FetchErr(sacctResp.Errors[Len(sacctResp.Errors)], 1)
        ELSE FetchOk(SumGres(sacctResp.Records, 1))

JsonFetchAllocatedGpus(raw) ==
    LET sacctResp == Unmarshal(raw)
    IN  IF raw.err THEN FetchErr(ErrTransport, 0)
        ELSE IF sacctResp.err # NoErr THEN FetchErr(sacctResp.err, 0)
        ELSE IF Len(sacctResp.Errors) > 0
             THEN FetchErr(sacctResp.Errors[1], Len(sacctResp.Errors))
        ELSE FetchOk(SumGres(sacctResp.Records, 1))

\* csv.Reader.ReadAll with Comma = '|' and LazyQuotes, on text without quote
\* characters: empty lines are skipped, every line is split on the comma, and
\* a record whose field count differs from the first record's is an error
\* (FieldsPerRecord = 0).
RECURSIVE DropEmpty(_)
DropEmpty(lines) ==
    IF lines = <<>> THEN <<>>
    ELSE IF Head(lines) = <<>> THEN DropEmpty(Tail(lines))
    ELSE <<Head(lines)>> \o DropEmpty(Tail(lines))

ReadAll(text) ==
    LET lines   == DropEmpty(Split(text, "\n"))
        records == [i \in 1..Len(lines) |-> Split(lines[i], "|")]
    IN  IF \E i \in 1..Len(records) : Len(records[i]) # Len(records[1])
        THEN [records |-> <<>>, err |-> ErrFieldCount]
        ELSE [records |-> records, err |-> NoErr]

\* The record loop of GpuCliFallbackFetcher.fetchTotalGpus.
RECURSIVE SumRecords(_, _)
SumRecords(records, i) ==
    IF i > Len(records) THEN 0
    ELSE (IF Len(records[i]) < 2 THEN 0
          ELSE parseGresGpuCount(TrimSpace(records[i][2])))
         + SumRecords(records, i + 1)

\* Mutant of CliFetchTotalGpus: a CSV error is not returned, the output
\* counts as no GPU.
CliFetchTotalGpusLenient(raw) ==
    LET sinfoOutput == TrimSpace(raw.text)
        read        == ReadAll(sinfoOutput)
    IN  IF raw.err THEN FetchErr(ErrTransport, 0)
        ELSE IF Len(sinfoOutput) = 0 THEN FetchOk(0)
        ELSE FetchOk(SumRecords(read.records, 1))

CliFetchTotalGpus(raw) ==
    LET sinfoOutput == TrimSpace(raw.text)
        read        == ReadAll(sinfoOutput)
    IN  IF raw.err THEN FetchErr(ErrTransport, 0)
        ELSE IF Len(sinfoOutput) = 0 THEN FetchOk(0)
        ELSE IF read.err # NoErr THEN FetchErr(read.err, 1)
        ELSE FetchOk(SumRecords(read.records, 1))

\* The line loop of GpuCliFallbackFetcher.fetchAllocatedGpus.
RECURSIVE SumLines(_, _)
SumLines(lines, i) ==
    IF i > Len(lines) THEN 0
    ELSE (LET line == TrimSpace(lines[i])
          IN  IF Len(line) = 0 THEN 0
              ELSE parseGresGpuCount(Trim(line, "\"")))
         + SumLines(lines, i + 1)

CliFetchAllocatedGpus(raw) ==
    LET sacctOutput == TrimSpace(raw.text)
    IN  IF raw.err THEN FetchErr(ErrTransport, 0)
        ELSE IF Len(sacctOutput) = 0 THEN FetchOk(0)
        ELSE FetchOk(SumLines(Split(sacctOutput, "\n"), 1))

\* The tail of GpuJsonFetcher.fetch: the snapshot of the two quantities.
JsonMetrics(totalGpus, allocGpus) ==
    [Alloc |-> allocGpus,
     Idle |-> totalGpus - allocGpus,
     Total |-> totalGpus,
     Utilization |-> IF totalGpus > 0 THEN FloatDiv(allocGpus, totalGpus)
                     ELSE FloatZero]

\* Mutant of CliMetrics: the utilization is the idle share of the total
\* instead of the allocated share.
CliMetricsIdleShare(totalGpus, allocGpus) ==
    [Alloc |-> allocGpus,
     Idle |-> totalGpus - allocGpus,
     Total |-> totalGpus,
     Utilization |-> IF totalGpus > 0
                       THEN FloatDiv(totalGpus - allocGpus, totalGpus)
                       ELSE FloatZero]

\* The tail of GpuCliFallbackFetcher.fetch.
CliMetrics(totalGpus, allocGpus) ==
    [Alloc |-> allocGpus,
     Idle |-> totalGpus - allocGpus,
     Total |-> totalGpus,
     Utilization |-> IF totalGpus > 0 THEN FloatDiv(allocGpus, totalGpus)
                     ELSE FloatZero]

\* ------------------------------------------------------------------ inputs

\* The outputs the sinfo scraper of the structured variant returns: a failed
\* command, bytes that are not JSON, a document with two upstream errors, and
\* node lists (gpu:2 + gpu:tesla:1; no node).
JsonSinfoOutputs ==
    { RawErr,
      RawText(<<"<">>),
      RawJson(<<"e1", "e2">>, <<>>),
      RawJson(<<>>, << <<"g", "p", "u", ":", "2">>,
                       <<"g", "p", "u", ":", "t", "e", "s", "l", "a", ":", "1">> >>),
      RawJson(<<>>, <<>>) }

\* The outputs of the sacct scraper of the structured variant: a failed
\* command, bytes that are not JSON, a document with two upstream errors,
\* and a job list (cpu=4,gres/gpu=2 + gpu:x).
JsonSacctOutputs ==
    { RawErr,
      RawText(<<"<">>),
      RawJson(<<"e2", "e1">>, <<>>),
      RawJson(<<>>, << <<"c", "p", "u", "=", "4", ",",
                         "g", "r", "e", "s", "/", "g", "p", "u", "=", "2">>,
                       <<"g", "p", "u", ":", "x">> >>) }

\* The outputs of the sinfo scraper of the fallback variant: a failed command,
\* empty output, two rows "name|gres", the row of the default format
\* "Gres:30|", rows of unequal field counts, and rows of one field.
CliSinfoOutputs ==
    { RawErr,
      RawText(<<>>),
      RawText(<<"n", "1", "|", "g", "p", "u", ":", "2", "\n",
                "n", "2", "|", "G", "P", "U", ":", "1", "\n">>),
      RawText(<<"g", "p", "u", ":", "2", " ", " ", " ", "|", "\n">>),
      RawText(<<"n", "1", "|", "g", "p", "u", ":", "2", "\n", "n", "2", "\n">>),
      RawText(<<"n", "1", "\n", "n", "2">>) }

\* The outputs of the sacct scraper of the fallback variant: a failed command,
\* empty output, and two lines (gpu:1 and a quoted "gpu:2").
CliSacctOutputs ==
    { RawErr,
      RawText(<<>>),
      RawText(<<"g", "p", "u", ":", "1", "\n",
                "\"", "g", "p", "u", ":", "2", "\"", "\n">>) }

Variants == {"json", "cli"}

SinfoOutputs(v) == IF v = "json" THEN JsonSinfoOutputs ELSE CliSinfoOutputs

SacctOutputs(v) == IF v = "json" THEN JsonSacctOutputs ELSE CliSacctOutputs

\* Dispatch on the concrete fetcher behind the GpuFetcher interface.
FetchTotalGpus(v, raw) ==
    IF v = "json" THEN JsonFetchTotalGpus(raw) ELSE CliFetchTotalGpus(raw)

FetchAllocatedGpus(v, raw) ==
    IF v = "json" THEN JsonFetchAllocatedGpus(raw) ELSE CliFetchAllocatedGpus(raw)

Metrics(v, totalGpus, allocGpus) ==
    IF v = "json" THEN JsonMetrics(totalGpus, allocGpus)
    ELSE CliMetrics(totalGpus, allocGpus)

\* ------------------------------------------------------------------ state

Callers == 1..NumCallers

VARIABLES
    variant,       \* which fetcher NewGpuCollector built: "json" or "cli"
    cache,         \* gpuCache: [cache, t, limit, duration]
    lockHolder,    \* gpuCache.Mutex: the caller holding it, 0 when unlocked
    errorCounter,  \* the fetcher's errorCounter
    now,           \* the clock
    pc,            \* each caller's position in FetchMetrics
    t,             \* each caller's local t of FetchMetrics
    totalGpus,     \* each caller's local totalGpus of fetch
    cur,           \* per caller: what its call in progress has observed
    last,          \* the latest completed call: observations and return values
    prev,          \* the completed call before it
    calls,         \* FetchMetrics calls made so far
    sections,      \* lock acquisitions so far
    lastOutcome,   \* how the latest completed locked section ended
    lastFetched,   \* the snapshot of the latest successful fetch
    gres,          \* the terms of the resource string given to the parser
    text,          \* the terms as rearranged and re-cased since
    parsed0,       \* parseGresGpuCount of the string as given
    parsed,        \* parseGresGpuCount of the string as it is now
    fetchRes,      \* the result of a fetch over the terms as records
    descCh         \* what the latest Describe call sent on its channel

\* The state of the fetcher and its callers.
fetcherVars == <<variant, cache, lockHolder, errorCounter, now, pc, t,
                 totalGpus, cur, last, prev, calls, sections, lastOutcome,
                 lastFetched>>

\* The state of an application of the parser.
parserVars == <<gres, text, parsed0, parsed, fetchRes>>

vars == <<fetcherVars, parserVars, descCh>>

\* The record of one FetchMetrics call: whether another call completed while
\* it was in progress (overlapped), its acquisition number (ticket), the
\* outcome of the section before it (prev),
\* the cache at lock time (pre) and at unlock time (post), the instant of the
\* cache test (chkT), the scraper invocations it made (nSinfo, nSacct) with
\* their outputs, what it added to the error counter (nErr), how it ended
\* (kind: "hit", "fresh", "fail"), what it returned (metrics, err), the
\* latest successful fetch at its return (fetched), and what Collect, which
\* made the call, then sent on its channel (emitted).
NoObs ==
    [overlapped |-> FALSE, ticket |-> 0, prev |-> "none",
     kind |-> "none",
     pre |-> [cache |-> Nil, t |-> 0, limit |-> 0, duration |-> 0],
     post |-> [cache |-> Nil, t |-> 0, limit |-> 0, duration |-> 0],
     chkT |-> 0, nSinfo |-> 0, nSacct |-> 0, nErr |-> 0,
     sinfoRaw |-> <<>>, sacctRaw |-> <<>>,
     metrics |-> Nil, err |-> NoErr, fetched |-> Nil, emitted |-> <<>>]

\* NewGpuCollector: an empty cache with the configured limit, a zero counter.
NewGpuCollector ==
    /\ variant \in Variants
    /\ cache = [cache |-> Nil, t |-> 0, limit |-> MaxLimit, duration |-> 0]
    /\ lockHolder = 0
    /\ errorCounter = 0
    /\ now = 0
    /\ pc = [c \in Callers |-> "idle"]
    /\ t = [c \in Callers |-> 0]
    /\ totalGpus = [c \in Callers |-> 0]
    /\ cur = [c \in Callers |-> NoObs]
    /\ last = NoObs
    /\ prev = NoObs
    /\ calls = 0
    /\ sections = 0
    /\ lastOutcome = "none"
    /\ lastFetched = Nil

\* No resource string is under test.
ParserIdle ==
    /\ gres = <<>>
    /\ text = <<>>
    /\ parsed0 = 0
    /\ parsed = 0
    /\ fetchRes = Nil

Init == NewGpuCollector /\ ParserIdle /\ descCh = <<>>

\* Mutant of CanLock: a lock that never blocks.
CanLockAlways(holder) == TRUE

\* sync.Mutex.Lock returns only when the mutex is unlocked.
CanLock(holder) == holder = 0

\* Mutant of CacheFresh: the comparison with the limit inverted.
CacheFreshInverted(cch, clock) == cch.cache # Nil /\ clock - cch.t > cch.limit

\* Mutant of CacheFresh: any cached snapshot is served, whatever its age.
CacheFreshForever(cch, clock) == cch.cache # Nil

\* The cache-hit test of FetchMetrics:
\* cache != nil && time.Since(t).Seconds() < limit.
CacheFresh(cch, clock) == cch.cache # Nil /\ clock - cch.t < cch.limit

\* Mutant of Unlock: the lock is not released.
UnlockForgotten(holder) == holder

\* The deferred Unlock of FetchMetrics.
Unlock(holder) == 0

\* Mutant of Store: the timestamp is reset but a snapshot already cached is
\* not replaced.
StoreKeepOld(cch, metrics, since, clock) ==
    [cch EXCEPT !.duration = since,
                !.cache = IF cch.cache = Nil THEN Ptr(metrics) ELSE cch.cache,
                !.t = clock]

\* The three assignments that store a fetched snapshot.
Store(cch, metrics, since, clock) ==
    [cch EXCEPT !.duration = since, !.cache = Ptr(metrics), !.t = clock]

\* Mutant of KeepCache: a failed fetch resets the timestamp.
KeepCacheTouch(cch) == [cch EXCEPT !.t = now]

\* What a failed fetch leaves in the cache.
KeepCache(cch) == cch

\* A caller enters FetchMetrics and reaches cache.Lock().
Call(c) ==
    /\ pc[c] = "idle"
    /\ calls < MaxCalls
    /\ calls' = calls + 1
    /\ pc' = [pc EXCEPT ![c] = "lock"]
    /\ cur' = [cur EXCEPT ![c] = NoObs]
    /\ UNCHANGED <<variant, cache, lockHolder, errorCounter, now, t, totalGpus,
                   last, prev, sections, lastOutcome, lastFetched>>
    /\ UNCHANGED <<parserVars, descCh>>

\* What a caller records when it gets the lock.
Acquired(c) ==
    [cur[c] EXCEPT !.ticket = sections + 1, !.prev = lastOutcome,
                   !.pre = cache, !.chkT = now]

\* The descriptors NewGpuCollector gives the collector.
GpuCollector ==
    [alloc |-> "slurm_gpus_alloc",
     idle |-> "slurm_gpus_idle",
     total |-> "slurm_gpus_total",
     utilization |-> "slurm_gpus_utilization"]

\* prometheus.MustNewConstMetric(desc, prometheus.GaugeValue, value).
ConstMetric(desc, value) == [desc |-> desc, value |-> value]

\* Mutant of Collect: the utilization observation is not sent.
CollectThree(metrics, err) ==
    IF err # NoErr THEN <<>>
    ELSE IF metrics = Nil THEN <<>>
    ELSE <<ConstMetric(GpuCollector.alloc, metrics[1].Alloc),
           ConstMetric(GpuCollector.idle, metrics[1].Idle),
           ConstMetric(GpuCollector.total, metrics[1].Total)>>

\* GpuCollector.Collect after FetchMetrics has returned (metrics, err): what
\* it sends on its channel.
Collect(metrics, err) ==
    IF err # NoErr THEN <<>>
    ELSE IF metrics = Nil THEN <<>>
    ELSE <<ConstMetric(GpuCollector.alloc, metrics[1].Alloc),
           ConstMetric(GpuCollector.idle, metrics[1].Idle),
           ConstMetric(GpuCollector.total, metrics[1].Total),
           ConstMetric(GpuCollector.utilization, metrics[1].Utilization)>>

\* What a caller records when it releases the lock and returns, and Collect
\* has handled what FetchMetrics returned.
Released(o, kind, cch, metrics, err, fetched) ==
    [o EXCEPT !.kind = kind, !.post = cch, !.metrics = metrics, !.err = err,
              !.fetched = fetched, !.emitted = Collect(metrics, err)]

\* The calls in progress when caller c returns: each has overlapped c's call.
Overlap(c) ==
    [d \in Callers |->
        IF d = c THEN NoObs
        ELSE IF pc[d] = "idle" THEN cur[d]
        ELSE [cur[d] EXCEPT !.overlapped = TRUE]]

\* What is kept of a completed call once the next one completes.
Summary(o) ==
    [NoObs EXCEPT !.ticket = o.ticket, !.prev = o.prev, !.kind = o.kind,
                  !.post = o.post, !.metrics = o.metrics, !.err = o.err]

\* cache.Lock() succeeds and the cached snapshot is fresh: it is returned and
\* the deferred Unlock runs.
LockHit(c) ==
    /\ pc[c] = "lock"
    /\ CanLock(lockHolder)
    /\ CacheFresh(cache, now)
    /\ lockHolder' = Unlock(c)
    /\ pc' = [pc EXCEPT ![c] = "idle"]
    /\ sections' = sections + 1
    /\ lastOutcome' = "hit"
    /\ last' = Released(Acquired(c), "hit", cache, cache.cache, NoErr, lastFetched)
    /\ prev' = Summary(last)
    /\ cur' = Overlap(c)
    /\ UNCHANGED <<variant, cache, errorCounter, now, t, totalGpus, calls,
                   lastFetched>>
    /\ UNCHANGED <<parserVars, descCh>>

\* cache.Lock() succeeds and there is no fresh snapshot: t := time.Now() and
\* the caller goes on to fetch, holding the lock.
LockMiss(c) ==
    /\ pc[c] = "lock"
    /\ CanLock(lockHolder)
    /\ ~CacheFresh(cache, now)
    /\ lockHolder' = c
    /\ t' = [t EXCEPT ![c] = now]
    /\ pc' = [pc EXCEPT ![c] = "total"]
    /\ sections' = sections + 1
    /\ cur' = [cur EXCEPT ![c] = Acquired(c)]
    /\ UNCHANGED <<variant, cache, errorCounter, now, totalGpus, last, prev,
                   calls, lastOutcome, lastFetched>>
    /\ UNCHANGED <<parserVars, descCh>>

\* fetchTotalGpus: one invocation of the sinfo scraper and the parse of its
\* output; on an error FetchMetrics returns it and the deferred Unlock runs.
FetchTotal(c) ==
    /\ pc[c] = "total"
    /\ \E raw \in SinfoOutputs(variant) :
          LET r == FetchTotalGpus(variant, raw)
              o == [cur[c] EXCEPT !.sinfoRaw = <<raw>>,
                                  !.nSinfo = @ + 1,
                                  !.nErr = @ + r.add]
          IN  /\ errorCounter' = errorCounter + r.add
              /\ IF r.err # NoErr
                 THEN /\ cache' = KeepCache(cache)
                      /\ lockHolder' = Unlock(c)
                      /\ pc' = [pc EXCEPT ![c] = "idle"]
                      /\ lastOutcome' = "fail"
                      /\ last' = Released(o, "fail", cache', Nil, r.err, lastFetched)
                      /\ prev' = Summary(last)
                      /\ cur' = Overlap(c)
                      /\ t' = [t EXCEPT ![c] = 0]
                      /\ UNCHANGED totalGpus
                 ELSE /\ totalGpus' = [totalGpus EXCEPT ![c] = r.val]
                      /\ pc' = [pc EXCEPT ![c] = "alloc"]
                      /\ cur' = [cur EXCEPT ![c] = o]
                      /\ UNCHANGED <<cache, lockHolder, lastOutcome, last, prev, t>>
    /\ UNCHANGED <<variant, now, calls, sections, lastFetched>>
    /\ UNCHANGED <<parserVars, descCh>>

\* fetchAllocatedGpus, the rest of fetch and the rest of FetchMetrics: one
\* invocation of the sacct scraper and the parse of its output; on an error
\* FetchMetrics returns it, otherwise the snapshot is built, stored and
\* returned; the deferred Unlock runs.
FetchAlloc(c) ==
    /\ pc[c] = "alloc"
    /\ \E raw \in SacctOutputs(variant) :
          LET r       == FetchAllocatedGpus(variant, raw)
              o       == [cur[c] EXCEPT !.sacctRaw = <<raw>>,
                                        !.nSacct = @ + 1,
                                        !.nErr = @ + r.add]
              metrics == Metrics(variant, totalGpus[c], r.val)
          IN  /\ errorCounter' = errorCounter + r.add
              /\ IF r.err # NoErr
                 THEN /\ cache' = KeepCache(cache)
                      /\ lastOutcome' = "fail"
                      /\ last' = Released(o, "fail", cache', Nil, r.err, lastFetched)
                      /\ UNCHANGED lastFetched
                 ELSE /\ cache' = Store(cache, metrics, now - t[c], now)
                      /\ lastOutcome' = "fresh"
                      /\ lastFetched' = Ptr(metrics)
                      /\ last' = Released(o, "fresh", cache', Ptr(metrics), NoErr,
                                          Ptr(metrics))
    /\ prev' = Summary(last)
    /\ lockHolder' = Unlock(c)
    /\ pc' = [pc EXCEPT ![c] = "idle"]
    /\ cur' = Overlap(c)
    /\ t' = [t EXCEPT ![c] = 0]
    /\ totalGpus' = [totalGpus EXCEPT ![c] = 0]
    /\ UNCHANGED <<variant, now, calls, sections>>
    /\ UNCHANGED <<parserVars, descCh>>

\* Time passes.
Tick ==
    /\ now < MaxTime
    /\ now' = now + 1
    /\ UNCHANGED <<variant, cache, lockHolder, errorCounter, pc, t, totalGpus,
                   cur, last, prev, calls, sections, lastOutcome, lastFetched>>
    /\ UNCHANGED <<parserVars, descCh>>

Next ==
    \/ \E c \in Callers : Call(c)
    \/ \E c \in Callers : LockHit(c)
    \/ \E c \in Callers : LockMiss(c)
    \/ \E c \in Callers : FetchTotal(c)
    \/ \E c \in Callers : FetchAlloc(c)
    \/ Tick

Spec == Init /\ [][Next]_vars

\* Every scraper invocation returns (a caller inside fetch takes its next
\* step), and sync.Mutex grants the lock fairly: a caller blocked in Lock
\* gets it if it is free again and again.
Fairness ==
    \A c \in Callers :
        /\ WF_vars(FetchTotal(c))
        /\ WF_vars(FetchAlloc(c))
        /\ SF_vars(LockHit(c) \/ LockMiss(c))

FairSpec == Spec /\ Fairness

\* ------------------------------------------------------------------ collector

\* What GpuCollector.Describe sends on its channel.
DescribeOut(gc) == <<gc.alloc, gc.idle, gc.total, gc.utilization>>

\* GpuCollector.Describe: it reads nothing of the fetcher.
Describe ==
    /\ descCh' = DescribeOut(GpuCollector)
    /\ UNCHANGED <<fetcherVars, parserVars>>

CollectNext ==
    \/ Next
    \/ Describe

\* The fetcher with the collector's Describe beside its Collect calls.
CollectSpec == Init /\ [][CollectNext]_vars

\* ------------------------------------------------------------------ parser runs

\* The longest resource string under test, in comma-separated terms.
MaxTerms == 2

\* A term of a resource string, with what it stands for: the number of GPUs
\* it declares (0 for another resource) and whether it is well formed.
Term(txt, n, ok) == [text |-> txt, gpus |-> n, wellFormed |-> ok]

\* The terms the strings under test are made of:
\*   gpu:2              a GPU count
\*   gpu:tesla:1        a typed GPU count
\*   gpu:1(IDX:0)       a GPU count with an index suffix
\*   mem:10G            another resource
\*   gpu:x              a GPU term whose count is not a number
\*   cpu=4              a TRES pair of another resource
\*   gres/gpu=2         a TRES GPU pair
\*   gres/gpu:tesla=1   a typed TRES GPU pair
\*   gres/gpu=x         a TRES GPU pair whose value is not a number
Terms ==
    {
      Term(<<"g", "p", "u", ":", "2">>,
           2, TRUE),
      Term(<<"g", "p", "u", ":", "t", "e", "s", "l", "a", ":", "1">>,
           1, TRUE),
      Term(<<"g", "p", "u", ":", "1", "(", "I", "D", "X", ":", "0", ")">>,
           1, TRUE),
      Term(<<"m", "e", "m", ":", "1", "0", "G">>,
           0, TRUE),
      Term(<<"g", "p", "u", ":", "x">>,
           0, FALSE),
      Term(<<"c", "p", "u", "=", "4">>,
           0, TRUE),
      Term(<<"g", "r", "e", "s", "/", "g", "p", "u", "=", "2">>,
           2, TRUE),
      Term(<<"g", "r", "e", "s", "/", "g", "p", "u", ":", "t", "e", "s", "l", "a", "=", "1">>,
           1, TRUE),
      Term(<<"g", "r", "e", "s", "/", "g", "p", "u", "=", "x">>,
           0, FALSE) }

\* The strings under test: one to MaxTerms terms.
TermSeqs == UNION {[1..n -> Terms] : n \in 1..MaxTerms}

Texts(terms) == [i \in 1..Len(terms) |-> terms[i].text]

\* strings.Join(texts, ","): the resource string of the terms.
RECURSIVE Join(_)
Join(texts) ==
    IF texts = <<>> THEN <<>>
    ELSE IF Len(texts) = 1 THEN texts[1]
    ELSE texts[1] \o <<",">> \o Join(Tail(texts))

UpperChar(ch) ==
    IF \E i \in 1..26 : LowerCase[i] = ch
    THEN UpperCase[CHOOSE i \in 1..26 : LowerCase[i] = ch]
    ELSE ch

\* Where the gpu marker of a term starts, in any letter case; 0 if it has none.
MarkerAt(s) ==
    IF Contains(ToLower(s), StrGpu)
    THEN CHOOSE i \in 1..(Len(s) - 2) :
            /\ ToLower(SubSeq(s, i, i + 2)) = StrGpu
            /\ \A j \in 1..(i - 1) : ToLower(SubSeq(s, j, j + 2)) # StrGpu
    ELSE 0

\* The term with the letter case of its gpu marker changed: gpu to GPU, any
\* other spelling to gpu.
RecaseMarker(s) ==
    LET m == MarkerAt(s)
    IN  [i \in 1..Len(s) |->
            IF i < m \/ i > m + 2 THEN s[i]
            ELSE IF SubSeq(s, m, m + 2) = StrGpu THEN UpperChar(s[i])
            ELSE LowerChar(s[i])]

\* The scraper outputs that carry the terms as records, one term per record:
\* a JSON document with one node or job per term, sinfo rows "n|term", and
\* sacct lines "term".
RECURSIVE SinfoRows(_)
SinfoRows(texts) ==
    IF texts = <<>> THEN <<>>
    ELSE <<"n", "|">> \o Head(texts) \o <<"\n">> \o SinfoRows(Tail(texts))

RECURSIVE SacctLines(_)
SacctLines(texts) ==
    IF texts = <<>> THEN <<>>
    ELSE Head(texts) \o <<"\n">> \o SacctLines(Tail(texts))

RecordsOutput(v, kind, terms) ==
    IF v = "json" THEN RawJson(<<>>, Texts(terms))
    ELSE IF kind = "total" THEN RawText(SinfoRows(Texts(terms)))
    ELSE RawText(SacctLines(Texts(terms)))

\* fetchTotalGpus or fetchAllocatedGpus of the variant on a scraper output.
FetchGpus(v, kind, raw) ==
    IF kind = "total" THEN FetchTotalGpus(v, raw) ELSE FetchAllocatedGpus(v, raw)

\* The well-formed terms among the terms.
WellFormedOnly(terms) == SelectSeq(terms, LAMBDA term : term.wellFormed)

\* A resource string is handed to parseGresGpuCount.
ParseInit ==
    /\ NewGpuCollector
    /\ gres \in TermSeqs
    /\ text = Texts(gres)
    /\ parsed0 = parseGresGpuCount(Join(Texts(gres)))
    /\ parsed = parsed0
    /\ fetchRes = Nil
    /\ descCh = <<>>

\* Two neighbouring terms change places and the string is parsed again.
Permute(i) ==
    /\ i \in 1..(Len(text) - 1)
    /\ text' = [text EXCEPT ![i] = text[i + 1], ![i + 1] = text[i]]
    /\ parsed' = parseGresGpuCount(Join(text'))
    /\ UNCHANGED <<gres, parsed0, fetchRes>>
    /\ UNCHANGED <<fetcherVars, descCh>>

\* The gpu marker of a term changes letter case and the string is parsed
\* again.
Recase(i) ==
    /\ i \in 1..Len(text)
    /\ MarkerAt(text[i]) # 0
    /\ text' = [text EXCEPT ![i] = RecaseMarker(text[i])]
    /\ parsed' = parseGresGpuCount(Join(text'))
    /\ UNCHANGED <<gres, parsed0, fetchRes>>
    /\ UNCHANGED <<fetcherVars, descCh>>

\* The terms as given are fetched as the records of one scraper output, and,
\* for comparison, so are the well-formed ones alone.
FetchRecords(kind) ==
    /\ fetchRes = Nil
    /\ fetchRes' =
          Ptr([kind |-> kind,
               all |-> FetchGpus(variant, kind,
                                 RecordsOutput(variant, kind, gres)),
               rest |-> FetchGpus(variant, kind,
                                  RecordsOutput(variant, kind,
                                                WellFormedOnly(gres)))])
    /\ UNCHANGED <<gres, text, parsed0, parsed>>
    /\ UNCHANGED <<fetcherVars, descCh>>

ParseNext ==
    \/ \E i \in 1..MaxTerms : Permute(i)
    \/ \E i \in 1..MaxTerms : Recase(i)
    \/ \E kind \in {"total", "alloc"} : FetchRecords(kind)

ParseSpec == ParseInit /\ [][ParseNext]_vars

\* ------------------------------------------------------------------ claims

\* The completed calls on record.
Completed(o) == o.ticket > 0

Failed(o) == Completed(o) /\ o.err # NoErr

Succeeded(o) == Completed(o) /\ o.err = NoErr

\* The age of the cached snapshot when the call tested it.
Age(o) == o.chkT - o.pre.t

\* The latest call was in progress before the call before it released the
\* lock, and took the lock right after it.
BlockedBehind ==
    /\ Completed(prev) /\ Completed(last)
    /\ last.ticket = prev.ticket + 1
    /\ last.overlapped

\* The calls that hold an acquisition number and have not returned.
InFlight == {c \in Callers : cur[c].ticket > 0}

\* C1: a FetchMetrics call that finds a cached snapshot younger than the limit
\* returns that snapshot with no error and invokes neither scraper; and a call
\* that tests the cache less than the limit after the store time of the
\* snapshot the call before it returned gets the identical snapshot, again
\* with no scraper invocation.
C1_CacheHit ==
    /\ Completed(last) /\ last.pre.cache # Nil /\ Age(last) < last.pre.limit
       => /\ last.metrics = last.pre.cache
          /\ last.err = NoErr
          /\ last.nSinfo = 0
          /\ last.nSacct = 0
    /\ /\ Succeeded(prev) /\ Completed(last)
       /\ last.ticket > prev.ticket
       /\ last.chkT - prev.post.t < prev.post.limit
       => /\ last.metrics = prev.metrics
          /\ last.err = NoErr
          /\ last.nSinfo = 0
          /\ last.nSacct = 0

\* C1 witness: one call fetched a snapshot and the next call, within the
\* limit, was served it from the cache.
C1_Witness ==
    /\ Succeeded(prev) /\ prev.kind = "fresh"
    /\ Succeeded(last) /\ last.kind = "hit"
    /\ last.ticket > prev.ticket
    /\ last.metrics = prev.metrics
    /\ last.metrics # Nil

\* C2: a FetchMetrics call that returns an error returns no snapshot and
\* leaves the cached snapshot, its timestamp and the duration exactly as they
\* were when it took the lock; and the call that takes the lock next is not
\* served from the cache: it invokes the sinfo scraper again.
C2_FailedRefreshKeepsCache ==
    /\ Failed(last)
       => /\ last.post = last.pre
          /\ last.metrics = Nil
          /\ last.nSinfo = 1
    /\ Completed(last) /\ last.prev = "fail"
       => /\ last.kind # "hit"
          /\ last.nSinfo = 1
    /\ (lockHolder = 0 /\ lastOutcome = "fail") => ~CacheFresh(cache, now)

\* C2 witness: a refresh failed while a snapshot was cached, and the next
\* call, at a later instant than the snapshot's, has completed.
C2_Witness ==
    /\ Failed(prev)
    /\ Completed(last)
    /\ last.ticket = prev.ticket + 1
    /\ last.prev = "fail"
    /\ last.pre.cache # Nil
    /\ last.pre = prev.post
    /\ last.chkT > last.pre.t

\* C3 as stated: whenever a caller refreshes (the limit has elapsed) and
\* another caller was blocked behind it, the refresh invokes each scraper
\* exactly once and the blocked caller returns the stored snapshot without
\* invoking a scraper.
C3_Original ==
    BlockedBehind /\ prev.kind # "hit"
    => /\ prev.kind = "fresh"
       /\ last.kind = "hit"
       /\ last.metrics = prev.post.cache
       /\ last.nSinfo = 0
       /\ last.nSacct = 0

\* C3 amended: a locked section invokes each scraper at most once (none on a
\* hit, each exactly once on a successful refresh, sinfo once on a failed
\* one); when a refresh succeeds, a caller blocked behind it that takes the
\* lock less than the limit after the store returns the stored snapshot and
\* invokes no scraper; and a snapshot is refreshed only once it is at least
\* the limit old.
C3_SingleFlight ==
    /\ Completed(last)
       => /\ last.kind = "hit" => last.nSinfo = 0 /\ last.nSacct = 0
          /\ last.kind = "fresh" => last.nSinfo = 1 /\ last.nSacct = 1
          /\ last.kind = "fail" => last.nSinfo = 1 /\ last.nSacct \in {0, 1}
    /\ /\ BlockedBehind
       /\ prev.kind = "fresh"
       /\ last.chkT - prev.post.t < prev.post.limit
       => /\ last.kind = "hit"
          /\ last.metrics = prev.metrics
          /\ last.nSinfo = 0
          /\ last.nSacct = 0
    /\ Completed(last) /\ last.kind # "hit" /\ last.pre.cache # Nil
       => Age(last) >= last.pre.limit
    /\ \A c \in InFlight :
          cur[c].pre.cache # Nil => Age(cur[c]) >= cur[c].pre.limit

\* C3 witness: a caller was blocked while another refreshed successfully,
\* and was then served the stored snapshot.
C3_Witness ==
    /\ BlockedBehind
    /\ prev.kind = "fresh"
    /\ last.kind = "hit"
    /\ last.metrics = prev.metrics

\* The callers inside the locked check-fetch-store section of FetchMetrics.
InSection == {c \in Callers : pc[c] \in {"total", "alloc"}}

\* C4: at most one caller is inside the check-fetch-store section, hence at
\* most one scraper command runs; that caller holds the lock; and the cached
\* snapshot, timestamp and duration change only in a step of the lock holder.
C4_MutualExclusion ==
    /\ [](/\ Cardinality(InSection) <= 1
          /\ \A c \in Callers : c \in InSection <=> lockHolder = c)
    /\ [][cache' # cache
            => lockHolder # 0 /\ pc[lockHolder] = "alloc" /\ lockHolder' = 0]_vars

\* C4 witness: one caller is running a scraper under the lock while the
\* other waits for the lock.
C4_Witness ==
    \E c \in Callers : \E d \in Callers :
        /\ pc[c] = "alloc"
        /\ lockHolder = c
        /\ pc[d] = "lock"

\* C5: lock acquisitions are totally ordered (no two calls hold the same
\* acquisition number, and calls complete in the order of their numbers), and
\* a call that returns by cache hit returns the snapshot of the latest
\* successful fetch completed at that moment; while the lock is free the
\* cache holds exactly that snapshot.
C5_FreshnessOrdering ==
    /\ \A c \in InFlight : \A d \in InFlight :
          c # d => cur[c].ticket # cur[d].ticket
    /\ \A c \in InFlight : cur[c].ticket > last.ticket
    /\ Completed(prev) => last.ticket > prev.ticket
    /\ Completed(last) /\ last.kind = "hit"
       => last.metrics = last.fetched /\ last.fetched # Nil
    /\ lockHolder = 0 => cache.cache = lastFetched

\* C5 witness: a cache hit served by the third acquisition, after the
\* second acquisition's successful fetch had replaced the snapshot stored by
\* the first.
C5_Witness ==
    /\ Completed(prev) /\ prev.kind = "fresh" /\ prev.prev = "fresh"
    /\ Completed(last) /\ last.kind = "hit"
    /\ last.ticket = prev.ticket + 1
    /\ last.metrics = prev.post.cache
    /\ last.metrics = last.fetched

\* C6 as stated: after a refresh fails while a snapshot is held, the next
\* call is served that preserved snapshot by the cache-hit check.
C6_Original ==
    Completed(last) /\ last.prev = "fail" /\ last.pre.cache # Nil
    => /\ last.kind = "hit"
       /\ last.metrics = last.pre.cache

\* C6 amended: a failed refresh keeps the prior snapshot in the cache but
\* returns only the error; a snapshot is served by the cache-hit check only
\* while it is younger than the limit, so never right after a failed refresh:
\* the call that follows a failed refresh scrapes again and returns either a
\* new error or the snapshot it has just fetched.
C6_StaleNotServed ==
    /\ Failed(last)
       => /\ last.kind = "fail"
          /\ last.post.cache = last.pre.cache
          /\ last.metrics = Nil
    /\ Completed(last) /\ last.kind = "hit"
       => /\ Age(last) < last.pre.limit
          /\ last.prev # "fail"
    /\ Completed(last) /\ last.prev = "fail" /\ last.pre.cache # Nil
       => /\ last.nSinfo = 1
          /\ \/ Failed(last)
             \/ last.kind = "fresh" /\ last.metrics = last.fetched

\* C6 witness: two refreshes in a row failed while a snapshot was held, and
\* the snapshot is still in the cache.
C6_Witness ==
    /\ Failed(prev) /\ prev.post.cache # Nil
    /\ Failed(last)
    /\ last.ticket = prev.ticket + 1
    /\ last.prev = "fail"
    /\ last.pre.cache # Nil
    /\ cache.cache = last.pre.cache

\* The raw scraper outputs classified by failure kind.
IsTransport(raw) == raw.err

IsDecode(raw) == ~raw.err /\ ~raw.json

IsUpstream(raw) == ~raw.err /\ raw.json /\ Len(raw.errors) > 0

\* The delimiters of a line of delimited text.
Delims(line) == Len(SelectSeq(line, LAMBDA ch : ch = "|"))

\* The non-empty lines of the trimmed text.
RowLines(raw) == DropEmpty(Split(TrimSpace(raw.text), "\n"))

\* Some row has fewer than two fields.
HasShortRow(raw) ==
    /\ ~raw.err
    /\ \E i \in 1..Len(RowLines(raw)) : Delims(RowLines(raw)[i]) = 0

\* The rows do not all have the same number of fields.
HasUnevenRows(raw) ==
    /\ ~raw.err
    /\ \E i \in 1..Len(RowLines(raw)) :
          Delims(RowLines(raw)[i]) # Delims(RowLines(raw)[1])

\* The sinfo and sacct outputs the latest call received.
SinfoOf(o) == o.sinfoRaw[1]

SacctOf(o) == o.sacctRaw[1]

GotSinfo(o) == Completed(o) /\ o.nSinfo = 1

GotSacct(o) == Completed(o) /\ o.nSacct = 1

\* C7 as stated: every transport, decode, upstream-reported or malformed-row
\* failure makes FetchMetrics return an error and increments the error
\* counter.
C7_Original ==
    /\ GotSinfo(last)
       /\ \/ IsTransport(SinfoOf(last))
          \/ variant = "json" /\ IsDecode(SinfoOf(last))
          \/ variant = "json" /\ IsUpstream(SinfoOf(last))
          \/ variant = "cli" /\ HasShortRow(SinfoOf(last))
       => Failed(last) /\ last.nErr >= 1
    /\ GotSacct(last)
       /\ \/ IsTransport(SacctOf(last))
          \/ variant = "json" /\ IsDecode(SacctOf(last))
          \/ variant = "json" /\ IsUpstream(SacctOf(last))
       => Failed(last) /\ last.nErr >= 1

\* C7 amended: transport and decode failures abort the cycle and return an
\* error without touching the error counter; upstream-reported errors abort
\* it and add the number of entries; delimited rows of differing field counts
\* abort it and add one; delimited rows that all have a single field are
\* skipped without error and the cycle goes on to sacct.
C7_FailureKinds ==
    /\ GotSinfo(last)
       /\ \/ IsTransport(SinfoOf(last))
          \/ variant = "json" /\ IsDecode(SinfoOf(last))
       => /\ Failed(last)
          /\ last.nErr = 0
          /\ last.nSacct = 0
          /\ last.post = last.pre
    /\ GotSacct(last)
       /\ \/ IsTransport(SacctOf(last))
          \/ variant = "json" /\ IsDecode(SacctOf(last))
       => /\ Failed(last)
          /\ last.nErr = 0
          /\ last.post = last.pre
    /\ GotSinfo(last) /\ variant = "json" /\ IsUpstream(SinfoOf(last))
       => /\ Failed(last)
          /\ last.nErr = Len(SinfoOf(last).errors)
          /\ last.nSacct = 0
    /\ GotSacct(last) /\ variant = "json" /\ IsUpstream(SacctOf(last))
       => /\ Failed(last)
          /\ last.nErr = Len(SacctOf(last).errors)
    /\ GotSinfo(last) /\ variant = "cli" /\ HasUnevenRows(SinfoOf(last))
       => /\ Failed(last)
          /\ last.err = ErrFieldCount
          /\ last.nErr = 1
          /\ last.nSacct = 0
    /\ /\ GotSinfo(last) /\ variant = "cli"
       /\ HasShortRow(SinfoOf(last))
       /\ ~HasUnevenRows(SinfoOf(last))
       => /\ last.nSacct = 1
          /\ last.nErr = 0
          /\ ~IsTransport(SacctOf(last))
             => Succeeded(last) /\ last.metrics[1].Total = 0

\* C7 witness: a delimited sinfo output with rows of differing field counts
\* failed the call and was counted once.
C7_Witness ==
    /\ variant = "cli"
    /\ GotSinfo(last)
    /\ HasUnevenRows(SinfoOf(last))
    /\ Failed(last)
    /\ last.nErr = 1
    /\ errorCounter >= 1

\* The Errors entries of a decoded payload (none unless it decodes).
UpstreamErrors(raw) == IF ~raw.err /\ raw.json THEN raw.errors ELSE <<>>

\* C8: in the JSON variant a payload whose Errors array has n > 0 entries
\* adds exactly n to the error counter, the call returns the first entry as
\* its error and no snapshot, the cache is left as it was; and the error
\* counter never decreases.
C8_UpstreamErrors ==
    /\ [](/\ GotSinfo(last) /\ variant = "json"
             /\ Len(UpstreamErrors(SinfoOf(last))) > 0
             => /\ last.nErr = Len(UpstreamErrors(SinfoOf(last)))
                /\ last.err = UpstreamErrors(SinfoOf(last))[1]
                /\ last.metrics = Nil
                /\ last.nSacct = 0
                /\ last.post = last.pre
          /\ GotSacct(last) /\ variant = "json"
             /\ Len(UpstreamErrors(SacctOf(last))) > 0
             => /\ last.nErr = Len(UpstreamErrors(SacctOf(last)))
                /\ last.err = UpstreamErrors(SacctOf(last))[1]
                /\ last.metrics = Nil
                /\ last.post = last.pre)
    /\ [][errorCounter' >= errorCounter]_vars

\* C8 witness: a sacct payload with two Errors entries failed a call after
\* sinfo had succeeded, and an earlier failure had already been counted.
C8_Witness ==
    /\ variant = "json"
    /\ GotSacct(last)
    /\ Len(UpstreamErrors(SacctOf(last))) = 2
    /\ last.nErr = 2
    /\ last.err = "e2"
    /\ errorCounter > 2

\* The derived fields of a snapshot agree with its total and allocated
\* quantities.
Derived(m) ==
    /\ m.Idle = m.Total - m.Alloc
    /\ m.Utilization.den > 0
    /\ IF m.Total > 0
         THEN m.Utilization.num * m.Total = m.Alloc * m.Utilization.den
         ELSE m.Utilization.num = 0

\* C9: every snapshot a successful FetchMetrics returns, fetched or cached,
\* in either variant, has Idle = Total - Alloc and Utilization = Alloc/Total
\* when Total > 0 and 0 otherwise; and both variants build the same snapshot
\* from the same quantities.
C9_DerivedFields ==
    /\ Succeeded(last) => last.metrics # Nil /\ Derived(last.metrics[1])
    /\ cache.cache # Nil => Derived(cache.cache[1])
    /\ \A total \in -1..3 : \A alloc \in 0..3 :
          JsonMetrics(total, alloc) = CliMetrics(total, alloc)

\* C9 witness: the CLI variant served from the cache a snapshot with no
\* GPUs in total and some allocated, whose utilization is 0.
C9_Witness ==
    /\ variant = "cli"
    /\ Succeeded(last) /\ last.kind = "hit"
    /\ last.metrics[1].Total = 0
    /\ last.metrics[1].Alloc > 0
    /\ last.metrics[1].Utilization.num = 0

\* C10 as stated: every snapshot of a successful fetch has
\* Total >= Alloc >= 0 and Idle >= 0.
C10_Original ==
    Succeeded(last) /\ last.kind = "fresh"
    => /\ last.metrics[1].Total >= last.metrics[1].Alloc
       /\ last.metrics[1].Alloc >= 0
       /\ last.metrics[1].Idle >= 0

\* The GPUs a resource string declares, by its terms: in TRES form (some
\* term is a key=value pair) those of the first well-formed GPU pair, in
\* GRES form the sum over its terms; a malformed term declares none.
RECURSIVE FirstGpuPair(_, _)
FirstGpuPair(terms, i) ==
    IF i > Len(terms) THEN 0
    ELSE IF /\ Contains(terms[i].text, <<"=">>)
            /\ terms[i].wellFormed
            /\ terms[i].gpus > 0
         THEN terms[i].gpus
    ELSE FirstGpuPair(terms, i + 1)

RECURSIVE SumDeclared(_, _)
SumDeclared(terms, i) ==
    IF i > Len(terms) THEN 0
    ELSE (IF terms[i].wellFormed THEN terms[i].gpus ELSE 0)
         + SumDeclared(terms, i + 1)

Declared(terms) ==
    IF \E i \in 1..Len(terms) : Contains(terms[i].text, <<"=">>)
    THEN FirstGpuPair(terms, 1)
    ELSE SumDeclared(terms, 1)

\* C11: parseGresGpuCount returns a quantity for every string, a malformed
\* term counting for 0 beside what the well-formed terms declare; and a fetch
\* over records of which some are malformed returns no error, counts no
\* error, and returns the total of the well-formed records: what each of
\* them declares, and what the fetch returns when given them alone.
C11_ParseNeverFails ==
    /\ parsed0 \in Nat
    /\ parsed \in Nat
    /\ parsed0 = Declared(gres)
    /\ fetchRes # Nil
       => /\ fetchRes[1].all.err = NoErr
          /\ fetchRes[1].all.add = 0
          /\ fetchRes[1].all.val = fetchRes[1].rest.val
          /\ fetchRes[1].all.val = SumDeclared(gres, 1)

\* C11 witness: a fetch over two records, one malformed and one declaring
\* GPUs, has returned the GPUs of the well-formed one.
C11_Witness ==
    /\ fetchRes # Nil
    /\ \E i \in 1..Len(gres) : ~gres[i].wellFormed
    /\ \E i \in 1..Len(gres) : gres[i].wellFormed /\ gres[i].gpus > 0
    /\ fetchRes[1].all.err = NoErr
    /\ fetchRes[1].all.val > 0

\* The string as given is in TRES form: parseGresGpuCount takes the branch
\* of strings.Contains(gres, "=").
TresForm == Contains(Join(Texts(gres)), <<"=">>)

\* C12 as stated: permuting the comma-separated terms of a resource string,
\* or changing the letter case of its gpu marker, does not change what
\* parseGresGpuCount returns.
C12_Original == parsed = parsed0

\* C12 amended: for a resource string in the legacy GRES form (no "=" in
\* it), permuting its comma-separated terms or changing the letter case of a
\* gpu marker does not change what parseGresGpuCount returns, which is the
\* sum of what it returns for each term.
C12_GresOrderCase ==
    ~TresForm
    => /\ parsed = parsed0
       /\ parsed = SumGres(text, 1)

\* C12 witness: the string gpu:2,gpu:tesla:1 or the like, with its two terms
\* exchanged and the marker of one of them in upper case, still gives the
\* sum of the two counts.
C12_Witness ==
    /\ Len(gres) = 2
    /\ ~TresForm
    /\ gres[1].gpus > 0
    /\ gres[2].gpus > 0
    /\ gres[1].gpus # gres[2].gpus
    /\ text[1] = RecaseMarker(gres[2].text)
    /\ text[2] = gres[1].text
    /\ parsed = gres[1].gpus + gres[2].gpus
    /\ parsed = parsed0

\* The four gauges of the collector, in the order they are sent.
GaugeNames ==
    <<"slurm_gpus_alloc", "slurm_gpus_idle", "slurm_gpus_total",
      "slurm_gpus_utilization">>

\* C13: whatever the fetches have done, a Describe call can be made and
\* sends exactly the four gauge descriptors; a Collect call whose
\* FetchMetrics succeeds sends exactly four observations, one per field of
\* the snapshot returned, and one whose FetchMetrics fails sends none.
C13_CollectorContract ==
    /\ ENABLED Describe
    /\ descCh # <<>> => descCh = GaugeNames
    /\ Succeeded(last)
       => /\ Len(last.emitted) = 4
          /\ \A i \in 1..4 : last.emitted[i].desc = GaugeNames[i]
          /\ last.emitted[1].value = last.metrics[1].Alloc
          /\ last.emitted[2].value = last.metrics[1].Idle
          /\ last.emitted[3].value = last.metrics[1].Total
          /\ last.emitted[4].value = last.metrics[1].Utilization
    /\ Failed(last) => last.emitted = <<>>

\* C13 witness: after a Collect call that failed, Describe has sent its
\* four descriptors and a second Collect call has sent four observations.
C13_Witness ==
    /\ Failed(prev)
    /\ Succeeded(last)
    /\ last.ticket = prev.ticket + 1
    /\ Len(last.emitted) = 4
    /\ Len(descCh) = 4

\* C14: the lock is free whenever no call is in progress; every step in
\* which a caller returns from FetchMetrics (by a hit, a stored snapshot or
\* an error) leaves the lock released; and, the scrapers returning and the
\* lock being granted fairly, every call in progress eventually returns.
C14_LockReleaseProgress ==
    /\ []((\A c \in Callers : pc[c] = "idle") => lockHolder = 0)
    /\ [][\A c \in Callers :
             pc[c] # "idle" /\ pc'[c] = "idle" => lockHolder' = 0]_vars
    /\ \A c \in Callers : (pc[c] # "idle") ~> (pc[c] = "idle")

\* C14 witness: a call that had to wait while another call failed has
\* itself fetched and returned, no call is in progress and the lock is free.
C14_Witness ==
    /\ \A c \in Callers : pc[c] = "idle"
    /\ lockHolder = 0
    /\ Failed(prev)
    /\ Completed(last) /\ last.kind = "fresh"
    /\ last.overlapped
    /\ last.ticket = prev.ticket + 1

====
